---------------------------- MODULE Spec2Model ----------------------------
(***************************************************************************)
(* Emotropy: the animation orchestrator (main.js), the Particle lifecycle  *)
(* (Particle.js), the emotion registry (emotionConfig.js) and the lexical  *)
(* classifier (detectEmotion).                                             *)
(*                                                                         *)
(* Representation.                                                         *)
(*  - `particles` is the array of main.js kept run-length encoded: one     *)
(*    entry stands for n consecutive array elements pushed by one spawn    *)
(*    loop with the same configuration and the same random draws. The      *)
(*    entry's `lo` is the serial number of its first element (elements     *)
(*    are numbered in push order), so every array element has an identity. *)
(*  - a lifespan is a real number (config.lifespan * random factor); it is *)
(*    kept in hundredths of a frame, and age >= lifespan is compared as    *)
(*    age * 100 >= lifespan.                                               *)
(*  - the browser runs every handler to completion, so each handler is one *)
(*    action. `trace` holds the calls the most recent animate() made, in   *)
(*    the order it made them, each with the compositing mode in force.     *)
(*  - positions, velocities and the pending acceleration are not part of   *)
(*    this state: force passes are recorded as calls in `trace`.           *)
(***************************************************************************)
EXTENDS Integers, Sequences, FiniteSets

VARIABLES
    particles,      \* main.js: let particles = []           (run-length encoded)
    attractors,     \* main.js: let attractors = []
    uiLocked,       \* main.js: let uiLocked = false
    dom,            \* the DOM fields the handlers read and write
    timers,         \* pending setTimeout callbacks of the submit handler
    trace,          \* calls made by the most recent animate()
    last,           \* the handler that ran last, with what it did
    serial,         \* next serial number for a pushed particle / placed point / submission
    playing,        \* a submission's result has locked the UI and the population has not been empty since
    env,            \* what the environment may still do (user events, frames)
    call            \* a function or method studied on its own: its input and what it returned

vars == <<particles, attractors, uiLocked, dom, timers, trace, last, serial, playing, env, call>>

-----------------------------------------------------------------------------
(* Program constants *)

MAX_PARTICLES == 700
MAX_ATTRACTORS == 3
ATTRACTOR_LIFE == 600
SINGLE_SPAWN == 120
BLEND_SPAWN == 160
SENSATION_COUNT == 35
FIRST_DELAY == 800
RESULT_DELAY == 400
ATTRACTOR_R == 160          \* influence radius in px
ATTRACTOR_STR == 22         \* force scalar 0.22, in hundredths
REPULSION_R == 60           \* const R = 60
REPULSION_F == 40           \* const F = 0.4, in hundredths
REPULSION_SAMPLE == 80      \* .slice(0, 80)

(* Bounds of the exploration *)

MaxEvents == 3          \* Spec: user events (submissions, canvas clicks, tag clicks)
MaxFrames == 2          \* Spec: frames run
LifeEvents == 2         \* LifeSpec: user events (submissions, tag clicks)
LifeWindow == 1         \* LifeSpec: user events happen before this many frames have run
FieldPlacements == 4    \* FieldSpec: clicks and right-clicks on the canvas
FieldWindow == 1        \* FieldSpec: user events happen before this many frames have run
CapSubmits == 5         \* CapSpec: submissions
CapFrames == 1          \* CapSpec: frames run
NoCap == 0 - 1

\* Outcomes of Math.random() explored for the lifespan factor
\* (0.8 + Math.random() * 0.4), in hundredths.  With 0.81 the idle profile
\* gets a whole lifespan (243) and the anger profile a fractional one (129.6).
LifeFactors == {81}

Min(a, b) == IF a < b THEN a ELSE b
Max(a, b) == IF a > b THEN a ELSE b

\* Math.round of the non-negative rational num / den: floor(x + 0.5).
Round(num, den) == (2 * num + den) \div (2 * den)


-----------------------------------------------------------------------------
(* emotionConfig.js *)

\* EMOTION_CONFIG: the behaviour and lifespan rows of the profiles.
EMOTION_CONFIG ==
    [joy          |-> [behaviour |-> "joy",          lifespan |-> 280],
     anger        |-> [behaviour |-> "anger",        lifespan |-> 160],
     sadness      |-> [behaviour |-> "sadness",      lifespan |-> 360],
     anxiety      |-> [behaviour |-> "anxiety",      lifespan |-> 220],
     fear         |-> [behaviour |-> "fear",         lifespan |-> 140],
     calm         |-> [behaviour |-> "calm",         lifespan |-> 420],
     curiosity    |-> [behaviour |-> "curiosity",    lifespan |-> 300],
     gratitude    |-> [behaviour |-> "gratitude",    lifespan |-> 350],
     shame        |-> [behaviour |-> "shame",        lifespan |-> 190],
     courage      |-> [behaviour |-> "courage",      lifespan |-> 260],
     hopeful      |-> [behaviour |-> "hopeful",      lifespan |-> 320],
     disconnected |-> [behaviour |-> "disconnected", lifespan |-> 280],
     stress       |-> [behaviour |-> "stress",       lifespan |-> 175],
     powerless    |-> [behaviour |-> "powerless",    lifespan |-> 300],
     unsettled    |-> [behaviour |-> "unsettled",    lifespan |-> 200],
     tender       |-> [behaviour |-> "tender",       lifespan |-> 380]]

IDLE_CONFIG == [behaviour |-> "joy", lifespan |-> 300, count |-> 40]

-----------------------------------------------------------------------------
(* detectEmotion.  A text is a sequence of chunks: a chunk is either one    *)
(* character that is not a word character (a blank, a line break, a         *)
(* punctuation mark) or a maximal run of word characters (letters, digits,  *)
(* underscore).  "don't" is the three chunks "don", "'", "t".               *)
(* Numbers are exact: a lexicon weight is kept in tenths, a sentence score  *)
(* in thousandths, and a document score is further scaled by 10 * the       *)
(* number of sentences, which is common to all emotions.                    *)

\* The keys of aggregatedScores, in insertion order.
EMOTIONS == <<"joy", "calm", "anger", "fear", "anxiety", "sadness", "shame",
              "gratitude", "courage", "hopeful", "disconnected", "stress",
              "powerless", "unsettled", "tender">>

EmotionSet == {EMOTIONS[i] : i \in 1..Len(EMOTIONS)}

NEGATION_WORDS ==
    {"not", "no", "never", "neither", "nor", "without", "can't", "cannot",
     "couldn't", "won't", "don't", "didn't", "isn't", "wasn't", "hardly",
     "barely", "nothing", "none", "lack", "lacking", "unable", "refuse"}

INTENSIFIERS ==
    {"very", "so", "really", "extremely", "incredibly", "deeply", "profoundly",
     "overwhelmingly", "utterly", "absolutely", "completely", "totally",
     "truly", "beyond", "intensely", "hugely", "especially", "particularly",
     "terribly", "awfully", "dreadfully", "insanely", "ridiculously", "super",
     "quite", "rather", "fairly"}

TRANSITION_WORDS ==
    {"but", "however", "yet", "nevertheless", "though", "nonetheless",
     "alternatively", "instead", "otherwise", "even though"}

\* The rows of LEXICONS the explored texts use (weights in tenths).
LEXICONS ==
    [e \in EmotionSet |->
        CASE e = "joy"     -> [t \in {"happy", "joy"} |-> IF t = "joy" THEN 30 ELSE 20]
          [] e = "calm"    -> [t \in {"serene", "still"} |-> IF t = "serene" THEN 30 ELSE 15]
          [] e = "anger"   -> [t \in {"furious", "hell", "edgy", "on edge"} |->
                                  CASE t = "furious" -> 30 [] t = "hell" -> 10 [] OTHER -> 15]
          [] e = "sadness" -> [t \in {"sad"} |-> 20]
          [] e = "courage" -> [t \in {"bold"} |-> 20]
          [] e = "stress"  -> [t \in {"edgy"} |-> 15]
          [] OTHER         -> [t \in {} |-> 0]]

\* The rows of BODILY_LEXICON the explored texts use (values in tenths).
BODILY_LEXICON == [t \in {"hot", "cold"} |-> IF t = "hot" THEN 15 ELSE 12]

\* The names every object literal inherits from Object.prototype: for them
\* `name in table` is true and table[name] is neither undefined nor a
\* number.  A lower-case word token can be "constructor" or "__proto__".
OBJECT_PROTOTYPE ==
    {"constructor", "__proto__", "hasOwnProperty", "isPrototypeOf",
     "propertyIsEnumerable", "toLocaleString", "toString", "valueOf",
     "__defineGetter__", "__defineSetter__", "__lookupGetter__", "__lookupSetter__"}

\* The result of arithmetic on something that is not a number; every sum
\* and product with it is NaN and every comparison with it is false.
NaN == 0 - 1

Plus(a, b) == IF a = NaN \/ b = NaN THEN NaN ELSE a + b
Times(a, b) == IF a = NaN \/ b = NaN THEN NaN ELSE a * b

\* sum of f[i] over i in lo..hi
RECURSIVE SumRange(_, _, _)
SumRange(f, lo, hi) == IF lo > hi THEN 0 ELSE f[lo] + SumRange(f, lo + 1, hi)

\* the same sum over values that may be NaN
RECURSIVE SumScores(_, _, _)
SumScores(f, lo, hi) == IF lo > hi THEN 0 ELSE Plus(f[lo], SumScores(f, lo + 1, hi))

\* Characters: \s, the sentence terminators of splitToSentences, and \w runs.
IsSpace(ch) == ch \in {" ", "\t", "\n"}
IsTerminator(ch) == ch \in {".", "!", "?"}
IsWord(ch) == ~IsSpace(ch) /\ ~IsTerminator(ch) /\ ch \notin {"'", ",", "-", ";", ":"}

\* String.prototype.toLowerCase on a chunk (the capitalised chunks explored).
toLowerCase(ch) ==
    CASE ch = "Happy" -> "happy"
      [] ch = "NOT" -> "not"
      [] ch = "Constructor" -> "constructor"
      [] OTHER -> ch

\* Variant of trim: the text is left as it is.
Trim_None(text) == text

\* String.prototype.trim
RECURSIVE TrimStart(_)
TrimStart(text) ==
    IF text # <<>> /\ IsSpace(Head(text)) THEN TrimStart(Tail(text)) ELSE text

RECURSIVE TrimEnd(_)
TrimEnd(text) ==
    IF text # <<>> /\ IsSpace(text[Len(text)])
    THEN TrimEnd(SubSeq(text, 1, Len(text) - 1)) ELSE text

Trim(text) == TrimEnd(TrimStart(text))

\* text.split(/(?<=[.!?])\s+/) from chunk i on: `done` are the pieces cut so
\* far, `piece` the one being read.  A run of blanks that follows a
\* terminator is a separator; any other chunk belongs to the piece.
RECURSIVE SplitFrom(_, _, _, _)
SplitFrom(text, i, done, piece) ==
    IF i > Len(text) THEN Append(done, piece)
    ELSE IF IsSpace(text[i]) /\ i > 1 /\ IsTerminator(text[i - 1])
         THEN LET rest == {j \in i..Len(text) : \A k \in i..j : IsSpace(text[k])}
                  stop == CHOOSE j \in rest : \A k \in rest : k <= j
              IN  SplitFrom(text, stop + 1, Append(done, piece), <<>>)
         ELSE SplitFrom(text, i + 1, done, Append(piece, text[i]))

\* splitToSentences(text): the pieces that are not blank
splitToSentences(text) ==
    SelectSeq(SplitFrom(text, 1, <<>>, <<>>), LAMBDA s : Len(Trim(s)) > 0)

\* text.toLowerCase().match(/\w+/g) || [] from chunk i on: chunks of word
\* characters that touch are one token.
RECURSIVE TokensFrom(_, _, _, _)
TokensFrom(text, i, done, word) ==
    IF i > Len(text) THEN (IF word = "" THEN done ELSE Append(done, word))
    ELSE IF IsWord(text[i])
         THEN TokensFrom(text, i + 1, done, word \o toLowerCase(text[i]))
         ELSE TokensFrom(text, i + 1, IF word = "" THEN done ELSE Append(done, word), "")

tokenise(text) == TokensFrom(text, 1, <<>>, "")

\* token in table / table[token]
HasKey(table, token) == token \in DOMAIN table \/ token \in OBJECT_PROTOTYPE
Lookup(table, token) == IF token \in DOMAIN table THEN table[token] ELSE NaN

\* What token i of a sentence adds to sentenceScores[e], in thousandths.
TokenScore(tokens, i, e) ==
    LET token == tokens[i]
        prevOne == IF i >= 2 THEN tokens[i - 1] ELSE ""
        prevTwo == IF i >= 3 THEN tokens[i - 2] ELSE ""
        isNegated == prevOne \in NEGATION_WORDS \/ prevTwo \in NEGATION_WORDS
        isIntensified == prevOne \in INTENSIFIERS \/ prevTwo \in INTENSIFIERS
        intensityMult == IF isIntensified THEN 16 ELSE 10
        add == [k \in 1..Len(EMOTIONS) |->
                  LET emotion == EMOTIONS[k] IN
                  IF HasKey(LEXICONS[emotion], token)
                  THEN LET weight == Times(Lookup(LEXICONS[emotion], token), intensityMult) IN
                       IF isNegated
                       THEN (IF e # emotion THEN Times(weight, 2) ELSE 0)
                       ELSE (IF e = emotion THEN Times(weight, 10) ELSE 0)
                  ELSE 0]
    IN  SumScores(add, 1, Len(EMOTIONS))

SentenceScore(tokens, e) ==
    SumScores([i \in 1..Len(tokens) |-> TokenScore(tokens, i, e)], 1, Len(tokens))

\* Variant of the sentence weight: no recency, every sentence weighs 1.
FinalSentenceWeight_Flat(sentences, s) == Len(sentences) * 10

\* finalSentenceWeight of sentence s (1-based) of n, times 10 * n.
FinalSentenceWeight(sentences, s) ==
    LET n == Len(sentences)
        tokens == tokenise(sentences[s])
        containsTransition == \E i \in 1..Len(tokens) : tokens[i] \in TRANSITION_WORDS
    IN  (n + (s - 1)) * (IF containsTransition THEN 13 ELSE 10)

AggregatedScores(sentences) ==
    [e \in EmotionSet |->
        SumScores([s \in 1..Len(sentences) |->
                      Times(SentenceScore(tokenise(sentences[s]), e),
                            FinalSentenceWeight(sentences, s))],
                  1, Len(sentences))]

\* sentenceBodilySum and sentenceBodilyCount of a sentence's tokens
BodilySum(tokens) ==
    SumScores([i \in 1..Len(tokens) |->
                  IF HasKey(BODILY_LEXICON, tokens[i])
                  THEN Lookup(BODILY_LEXICON, tokens[i]) ELSE 0], 1, Len(tokens))

BodilyCount(tokens) ==
    SumRange([i \in 1..Len(tokens) |->
                 IF HasKey(BODILY_LEXICON, tokens[i]) THEN 1 ELSE 0], 1, Len(tokens))

\* product of f[i] over i in lo..hi
RECURSIVE ProdRange(_, _, _)
ProdRange(f, lo, hi) == IF lo > hi THEN 1 ELSE f[lo] * ProdRange(f, lo + 1, hi)

\* bodily, as the fraction num / den of thousandths:
\* min(2.2, 0.8 + (totalBodilySum / totalBodilyCount) * 0.7), or 1.
Bodily(sentences) ==
    LET n == Len(sentences)
        toks == [s \in 1..n |-> tokenise(sentences[s])]
        count == [s \in 1..n |-> BodilyCount(toks[s])]
        with == {s \in 1..n : count[s] > 0}
        all == ProdRange([s \in 1..n |-> IF s \in with THEN count[s] ELSE 1], 1, n)
        \* totalBodilySum and totalBodilyCount, both times `all` * 10 * n
        sum == SumScores([s \in 1..n |->
                             IF s \in with
                             THEN Times(BodilySum(toks[s]),
                                        FinalSentenceWeight(sentences, s) * (all \div count[s]))
                             ELSE 0], 1, n)
        weight == all * SumRange([s \in 1..n |->
                                     IF s \in with THEN FinalSentenceWeight(sentences, s) ELSE 0],
                                 1, n)
    IN  IF with = {} THEN [num |-> 1000, den |-> 1]
        ELSE IF sum = NaN THEN [num |-> NaN, den |-> 1]
        ELSE IF 800 * weight + 70 * sum > 2200 * weight THEN [num |-> 2200, den |-> 1]
        ELSE [num |-> 800 * weight + 70 * sum, den |-> weight]

\* Variant of the comparator: every pair is left as it stands, so the
\* list is not sorted.
KeepsOrder_Always(a, b) == TRUE

\* The comparator (a, b) => b.weight - a.weight leaves a before b: the
\* difference is not positive, or is NaN (which sort takes as 0).
KeepsOrder(a, b) == a.score = NaN \/ b.score = NaN \/ a.score >= b.score

\* Array.prototype.sort((a, b) => b.weight - a.weight): stable, descending.
RECURSIVE InsertDesc(_, _)
InsertDesc(sorted, x) ==
    IF sorted = <<>> THEN <<x>>
    ELSE IF KeepsOrder(sorted[Len(sorted)], x) THEN Append(sorted, x)
    ELSE Append(InsertDesc(SubSeq(sorted, 1, Len(sorted) - 1), x), sorted[Len(sorted)])

RECURSIVE SortDesc(_)
SortDesc(list) ==
    IF list = <<>> THEN <<>>
    ELSE InsertDesc(SortDesc(SubSeq(list, 1, Len(list) - 1)), list[Len(list)])

\* Variant of the threshold: every emotion passes.
AboveThreshold_Always(score, total) == TRUE

\* e.weight >= BLEND_THRESHOLD, the weight being score / total
AboveThreshold(score, total) == score # NaN /\ total # NaN /\ score * 100 >= 16 * total

\* Variant of the renormalisation: the kept weights are left as shares of
\* the whole distribution.
BlendTotal_All(above, total) == total

\* blendTotal = above.reduce((s, e) => s + e.weight, 0), times total
BlendTotal(above, total) == SumRange([k \in 1..Len(above) |-> above[k].score], 1, Len(above))

\* detectEmotion(text).  A weight, the confidence and bodily are exact
\* fractions num / den (bodily in thousandths); a score of `scores` and
\* `total` carry the scale of AggregatedScores.
detectEmotion(text) ==
    IF Len(Trim(text)) = 0
    THEN [emotion |-> "joy", confidence |-> [num |-> 1, den |-> 2],
          scores |-> [e \in {} |-> 0],
          blend |-> <<[emotion |-> "joy", num |-> 1, den |-> 1]>>,
          bodily |-> [num |-> 1000, den |-> 1], total |-> 0]
    ELSE
    LET sentences == splitToSentences(text)
        scores == AggregatedScores(sentences)
        bodily == Bodily(sentences)
        total == SumScores([k \in 1..Len(EMOTIONS) |-> scores[EMOTIONS[k]]], 1, Len(EMOTIONS))
        normalised == SortDesc([k \in 1..Len(EMOTIONS) |->
                                   [emotion |-> EMOTIONS[k],
                                    score |-> IF total = NaN THEN NaN ELSE scores[EMOTIONS[k]]]])
        top == normalised[1]
        above == SelectSeq(normalised, LAMBDA x : AboveThreshold(x.score, total))
        blendTotal == BlendTotal(above, total)
        blend == [k \in 1..Len(above) |->
                     [emotion |-> above[k].emotion, num |-> above[k].score, den |-> blendTotal]]
    IN  IF total = 0
        THEN [emotion |-> "joy", confidence |-> [num |-> 0, den |-> 1], scores |-> scores,
              blend |-> <<>>, bodily |-> bodily, total |-> 0]
        ELSE [emotion |-> top.emotion,
              confidence |-> [num |-> top.score, den |-> IF total = NaN THEN 1 ELSE total],
              scores |-> scores,
              blend |-> IF blend = <<>> THEN <<[emotion |-> top.emotion, num |-> 1, den |-> 1]>>
                        ELSE blend,
              bodily |-> bodily,
              total |-> total]

\* The texts submitted: no keyword; one anger keyword; three keywords whose
\* shares 3/7, 2/7, 2/7 each round up.
Texts == { <<"12345">>,
           <<"furious">>,
           <<"bold", " ", "joy", " ", "sad">> }

-----------------------------------------------------------------------------
(* The particle array, run-length encoded *)

\* particles.length
Count(runs) == SumRange([k \in 1..Len(runs) |-> runs[k].n], 1, Len(runs))

\* The serial numbers of the array elements a run stands for.
Ids(run) == run.lo .. (run.lo + run.n - 1)
AllIds(runs) == UNION {Ids(runs[k]) : k \in 1..Len(runs)}

\* particles.splice(0, k): drops the first k elements (all of them when k
\* is at least the length, none when k <= 0).
RECURSIVE SpliceFront(_, _)
SpliceFront(runs, k) ==
    IF k <= 0 \/ runs = <<>> THEN runs
    ELSE IF runs[1].n <= k THEN SpliceFront(Tail(runs), k - runs[1].n)
    ELSE <<[runs[1] EXCEPT !.lo = @ + k, !.n = @ - k]>> \o Tail(runs)

\* new Particle(x, y, config), n times with the same config: age 0, alive,
\* lifespan = config.lifespan ?? 200 (in hundredths), ax = ay = 0.  `forced`
\* tells that applyForce has been called on a particle of the run since its
\* acceleration was last zero.
NewParticles(lo, n, behaviour, lifespan) ==
    [lo |-> lo, n |-> n, behaviour |-> behaviour, lifespan |-> lifespan,
     age |-> 0, alive |-> TRUE, forced |-> FALSE]

\* Faulty variant of Particle.update: the flag is cleared one update late.
ParticleUpdate_Late(p) ==
    LET age == p.age + 1
    IN  [p EXCEPT !.age = age,
                  !.alive = IF p.lifespan # NaN /\ age * 100 > p.lifespan
                            THEN FALSE ELSE p.alive]

\* Particle.update: ... this.age++; if (this.age >= this.lifespan) this.alive = false
\* (a comparison with NaN is false)
ParticleUpdate(p) ==
    LET age == p.age + 1
    IN  [p EXCEPT !.age = age,
                  !.alive = IF p.lifespan # NaN /\ age * 100 >= p.lifespan
                            THEN FALSE ELSE p.alive]

\* Particle.draw: alpha = Math.max(0, 1 - age / lifespan), here times lifespan.
DrawAlpha(p) == IF p.lifespan = NaN THEN NaN ELSE Max(0, p.lifespan - p.age * 100)

-----------------------------------------------------------------------------
(* main.js: spawning *)

\* count = Math.max(1, Math.round(totalCount * weight))
BlendCount(entry, totalCount) == Max(1, Round(totalCount * entry.num, entry.den))

\* EMOTION_CONFIG[emotion] ?? IDLE_CONFIG.  The registry is an object
\* literal: for a name inherited from Object.prototype the lookup gives a
\* function or an object, which is not nullish and has no profile field
\* (behaviour undefined, lifespan undefined: lifespan * factor is NaN).
ResolveConfig(emotion) ==
    IF emotion \in DOMAIN EMOTION_CONFIG
    THEN EMOTION_CONFIG[emotion]
    ELSE IF emotion \in OBJECT_PROTOTYPE
    THEN [behaviour |-> "undefined", lifespan |-> NaN]
    ELSE [behaviour |-> IDLE_CONFIG.behaviour, lifespan |-> IDLE_CONFIG.lifespan]

\* The blend.forEach loop of spawnBlend from entry k on: pushes the entry's
\* particles at the end of the array.  `factor` is the lifespan factor drawn.
RECURSIVE PushBlend(_, _, _, _, _, _)
PushBlend(runs, blend, k, totalCount, factor, lo) ==
    IF k > Len(blend) THEN runs
    ELSE LET config == ResolveConfig(blend[k].emotion)
             count == BlendCount(blend[k], totalCount)
         IN  PushBlend(Append(runs, NewParticles(lo, count, config.behaviour,
                                                 Times(config.lifespan, factor))),
                       blend, k + 1, totalCount, factor, lo + count)

\* The number of particles one spawnBlend call pushes.
BatchSize(blend, totalCount) ==
    SumRange([k \in 1..Len(blend) |-> BlendCount(blend[k], totalCount)], 1, Len(blend))

\* if (particles.length + totalCount > MAX_PARTICLES) particles.splice(0, ...)
BlendEvict(runs, totalCount) ==
    IF Count(runs) + totalCount > MAX_PARTICLES
    THEN Count(runs) + totalCount - MAX_PARTICLES
    ELSE 0

\* spawnBlend(blend, totalCount, bodily)
spawnBlend(runs, blend, totalCount, factor, lo) ==
    PushBlend(SpliceFront(runs, BlendEvict(runs, totalCount)), blend, 1, totalCount, factor, lo)

\* spawnParticles(config): the boot spawn
spawnParticles(runs, config, factor, lo) ==
    Append(IF Count(runs) + config.count > MAX_PARTICLES
           THEN SpliceFront(runs, config.count) ELSE runs,
           NewParticles(lo, config.count, config.behaviour, config.lifespan * factor))

\* getPhysicsForSensation(label).behaviour, for the labels explored.
SensationBehaviour(label) ==
    CASE label = "hot" -> "anger"
      [] OTHER -> "calm"

SensationLabels == {"hot"}

\* spawnSensation(label, x, y): 35 particles, lifespan (profile.lifespan ?? 200) * 0.7;
\* no profile of SENSATION_PHYSICS has a lifespan.
spawnSensation(runs, label, lo) ==
    Append(runs, NewParticles(lo, SENSATION_COUNT, SensationBehaviour(label), 200 * 70))

-----------------------------------------------------------------------------
(* main.js: field points *)

\* Faulty variant of placeAttractor: at capacity the latest point is dropped.
placeAttractor_DropNewest(points, type, id) ==
    Append(IF Len(points) >= MAX_ATTRACTORS THEN SubSeq(points, 1, Len(points) - 1) ELSE points,
           [type |-> type, age |-> 0, id |-> id])

\* placeAttractor(x, y, type); `id` numbers the placements.
placeAttractor(points, type, id) ==
    Append(IF Len(points) >= MAX_ATTRACTORS THEN Tail(points) ELSE points,
           [type |-> type, age |-> 0, id |-> id])

\* applyAttractors: pt.age++ for every point, then the filter.
AgePoints(points) == [k \in 1..Len(points) |-> [points[k] EXCEPT !.age = @ + 1]]
\* Faulty variant of the filter: a point lives one frame longer.
ExpirePoints_Late(points) == SelectSeq(points, LAMBDA pt : pt.age <= ATTRACTOR_LIFE)

ExpirePoints(points) == SelectSeq(points, LAMBDA pt : pt.age < ATTRACTOR_LIFE)

PointIds(points) == {points[k].id : k \in 1..Len(points)}

-----------------------------------------------------------------------------
(* main.js: animate().  The frame works on a context: the two arrays, the  *)
(* canvas compositing mode and the calls made so far.                      *)

\* One call of the frame: what was called, under which compositing mode,
\* on which run or point (0: none) and for how many elements.
Call(op, mode, who, n) ==
    [op |-> op, mode |-> mode, who |-> who, n |-> n,
     alive |-> TRUE, age |-> 0, lifespan |-> 0, alpha |-> 0]

\* A call of a Particle method, with the particle's fields when it returns.
ParticleCall(op, mode, p) ==
    [op |-> op, mode |-> mode, who |-> p.lo, n |-> p.n,
     alive |-> p.alive, age |-> p.age, lifespan |-> p.lifespan,
     alpha |-> IF op = "draw" THEN DrawAlpha(p) ELSE 0]

\* The one element of a singleton.  Statements are sequenced as
\* Only({G(b) : b \in {F(c)}}): G runs on the context b that F left.
Only(S) == CHOOSE x \in S : TRUE

\* p.applyForce(fx, fy) on a particle of the run
Forced(p) == [p EXCEPT !.forced = TRUE]

\* Variant of the first half of Particle.update: the acceleration is kept.
Integrate_KeepForce(p) == Forced(p)

\* Particle.update, lines 73-94: _applyBehaviourForces, v += a, friction,
\* position += v, then ax = 0; ay = 0
Integrate(p) == [Forced(p) EXCEPT !.forced = FALSE]

\* lines 417-440: source-over, the motion-blur fill and the background glows
Background(c) ==
    LET fill == <<Call("fillRect", "source-over", 0, 1),
                  Call("fillGlow", "source-over", 0, 1)>>
        glow2 == IF c.glow2 THEN <<Call("fillGlow2", "source-over", 0, 1)>> ELSE <<>>
    IN  [c EXCEPT !.mode = "source-over", !.trace = @ \o fill \o glow2]

\* applyRepulsion(): the sample is the first 80 anger particles; it changes
\* pending accelerations only.
AngerCount(runs) ==
    SumRange([k \in 1..Len(runs) |-> IF runs[k].behaviour = "anger" THEN runs[k].n ELSE 0],
             1, Len(runs))

\* Run k holds one of the first 80 anger particles.
InSample(runs, k) ==
    /\ runs[k].behaviour = "anger"
    /\ AngerCount(SubSeq(runs, 1, k - 1)) < REPULSION_SAMPLE

applyRepulsion(c) ==
    [c EXCEPT !.particles = [k \in 1..Len(@) |->
                                IF InSample(@, k) /\ AngerCount(@) >= 2
                                THEN Forced(@[k]) ELSE @[k]],
              !.trace = Append(@, Call("applyRepulsion", c.mode, 0,
                                       Min(REPULSION_SAMPLE, AngerCount(c.particles))))]

\* applyAttractors(): forces of every point on every particle, pt.age++,
\* then the expired points are filtered out.
applyAttractors(c) ==
    [c EXCEPT !.particles = [k \in 1..Len(@) |->
                                IF Len(c.attractors) > 0 THEN Forced(@[k]) ELSE @[k]],
              !.attractors = ExpirePoints(AgePoints(@)),
              !.trace = Append(@, Call("applyAttractors", c.mode, 0,
                                       Len(c.attractors)))]

\* p.update(w, h); p.draw(ctx) for the particles of run k
UpdateDraw(c, k) ==
    LET p == ParticleUpdate(Integrate(c.particles[k]))
    IN  [c EXCEPT !.particles[k] = p,
                  !.trace = @ \o <<ParticleCall("update", c.mode, p),
                                    ParticleCall("draw", c.mode, p)>>]

\* particles.forEach(p => { p.update(w, h); p.draw(ctx); }) from run k on
RECURSIVE UpdateDrawLoop(_, _)
UpdateDrawLoop(c, k) ==
    IF k > Len(c.particles) THEN c
    ELSE Only({UpdateDrawLoop(b, k + 1) : b \in {UpdateDraw(c, k)}})

\* Variant of the particle pass: the mode is not set back after the loop.
UpdateAndDraw_NoReset(c) ==
    Only({UpdateDrawLoop(b, 1) : b \in {[c EXCEPT !.mode = "lighter"]}})

\* lines 449-457: lighter, the update/draw loop, back to source-over
UpdateAndDraw(c) ==
    Only({[UpdateDrawLoop(b, 1) EXCEPT !.mode = "source-over"] :
             b \in {[c EXCEPT !.mode = "lighter"]}})

\* drawAttractors(): save, source-over, ring and dot, restore, per point
drawAttractors(c) ==
    [c EXCEPT !.trace = @ \o [k \in 1..Len(c.attractors) |->
                                 Call("drawAttractor", "source-over", c.attractors[k].id, 1)]]

\* Faulty variant of the cull: nothing is removed.
Cull_KeepAll(c) ==
    [c EXCEPT !.trace = Append(@, Call("filter", c.mode, 0, 0))]

\* particles = particles.filter(p => p.alive)
Cull(c) ==
    LET kept == SelectSeq(c.particles, LAMBDA p : p.alive)
    IN  [c EXCEPT !.particles = kept,
                  !.trace = Append(@, Call("filter", c.mode, 0,
                                           Count(c.particles) - Count(kept)))]

\* Faulty variant of animate(): the particles integrate before the forces
\* of the frame are applied.
animate_UpdateFirst(c) ==
    Only({Cull(c5) : c5 \in
          {drawAttractors(c4) : c4 \in
          {applyAttractors(c3) : c3 \in
          {applyRepulsion(c2) : c2 \in
          {UpdateAndDraw(c1) : c1 \in
          {Background(c)}}}}}})

\* Variant of animate(): the field-point pass runs before the repulsion pass.
animate_FieldFirst(c) ==
    Only({Cull(c5) : c5 \in
          {drawAttractors(c4) : c4 \in
          {UpdateAndDraw(c3) : c3 \in
          {applyRepulsion(c2) : c2 \in
          {applyAttractors(c1) : c1 \in
          {Background(c)}}}}}})

\* The body of animate() up to the cull; the first statement is the
\* innermost, the last one the outermost.
animate(c) ==
    Only({Cull(c5) : c5 \in
          {drawAttractors(c4) : c4 \in
          {UpdateAndDraw(c3) : c3 \in
          {applyAttractors(c2) : c2 \in
          {applyRepulsion(c1) : c1 \in
          {Background(c)}}}}}})

-----------------------------------------------------------------------------
(* State *)

\* What a handler did: the array length it found, how many elements it
\* removed and pushed, and the lock it found.
Summary(op, n0, evicted, pushed) ==
    [op |-> op, n0 |-> n0, evicted |-> evicted, pushed |-> pushed, locked |-> uiLocked]

\* Boot: spawnParticles(IDLE_CONFIG); updateEmotionUI('idle', ...); animate()
\* runs its first frame and requests the next.  `e` is what the environment
\* may do.
Boot(e) ==
    /\ \E factor \in LifeFactors :
          \E c \in {animate([particles |-> spawnParticles(<<>>, IDLE_CONFIG, factor, 1),
                               attractors |-> <<>>, mode |-> "source-over",
                               glow2 |-> FALSE, trace |-> <<>>])} :
             /\ particles = c.particles
             /\ attractors = c.attractors
             /\ trace = c.trace
    /\ uiLocked = FALSE
    /\ dom = [submitDisabled |-> FALSE, textDisabled |-> FALSE, stateInitial |-> TRUE,
              tags |-> FALSE, glow2 |-> FALSE]
    /\ timers = <<>>
    /\ last = Summary("boot", 0, 0, IDLE_CONFIG.count)
    /\ serial = [particle |-> IDLE_CONFIG.count + 1, point |-> 1, submit |-> 1]
    /\ playing = FALSE
    /\ env = e
    /\ call = [fn |-> "none"]

\* A session of a few frames with every kind of event.
Init ==
    Boot([events |-> MaxEvents,
          window |-> MaxFrames, horizon |-> MaxFrames])

\* A session followed to the end: submissions and tag clicks early on, then
\* frames without bound.
LifeInit ==
    Boot([events |-> LifeEvents,
          window |-> LifeWindow, horizon |-> NoCap])

\* Field points followed to their expiry.
FieldInit ==
    Boot([events |-> FieldPlacements,
          window |-> FieldWindow, horizon |-> NoCap])

\* Many submissions in a few frames: the population at its capacity.
CapInit ==
    Boot([events |-> CapSubmits,
          window |-> CapFrames, horizon |-> CapFrames])

\* User events are counted and happen in the first frames of the session.
UserMay == env.window > 0 /\ env.events > 0

-----------------------------------------------------------------------------
(* Handlers *)

\* form 'submit' listener (lines 297-316): trim the text and return if
\* nothing is left; classify, leave the initial state, schedule the result
\* (the callback keeps emotion, confidence, blend, bodily and total).  The
\* event needs the button or the text area enabled.
Submit(text) ==
    /\ UserMay
    /\ ~(dom.submitDisabled /\ dom.textDisabled)
    /\ Len(Trim(text)) > 0
    /\ LET detected == detectEmotion(Trim(text))
           result == [emotion |-> detected.emotion, confidence |-> detected.confidence,
                      blend |-> detected.blend, bodily |-> detected.bodily,
                      total |-> detected.total]
           resultDelay == IF dom.stateInitial THEN FIRST_DELAY ELSE RESULT_DELAY
       IN  timers' = Append(timers, [id |-> serial.submit, delay |-> resultDelay,
                                     result |-> result])
    /\ dom' = [dom EXCEPT !.stateInitial = FALSE]
    /\ serial' = [serial EXCEPT !.submit = @ + 1]
    /\ last' = Summary("submit", Count(particles), 0, 0)
    /\ env' = [env EXCEPT !.events = @ - 1]
    /\ UNCHANGED <<call, particles, attractors, uiLocked, trace, playing>>

\* A timeout fires before another when it is due earlier: it was set
\* earlier with a delay no longer than the other's.
Due(i) == \A j \in 1..(i - 1) : timers[j].delay > timers[i].delay

RemoveAt(seq, i) == SubSeq(seq, 1, i - 1) \o SubSeq(seq, i + 1, Len(seq))

\* Variant of the total === 0 callback: the lock is left as it was found.
ResultUnclear_KeepLock(i) ==
    /\ i \in 1..Len(timers) /\ Due(i)
    /\ timers[i].result.total = 0
    /\ timers' = RemoveAt(timers, i)
    /\ dom' = [dom EXCEPT !.submitDisabled = FALSE, !.textDisabled = FALSE]
    /\ last' = Summary("unclear", Count(particles), 0, 0)
    /\ UNCHANGED <<call, particles, attractors, uiLocked, trace, serial, playing, env>>

\* setTimeout callback, total === 0 (lines 318-334): "Unclear", inputs enabled
ResultUnclear(i) ==
    /\ i \in 1..Len(timers) /\ Due(i)
    /\ timers[i].result.total = 0
    /\ timers' = RemoveAt(timers, i)
    /\ uiLocked' = FALSE
    /\ dom' = [dom EXCEPT !.submitDisabled = FALSE, !.textDisabled = FALSE]
    /\ last' = Summary("unclear", Count(particles), 0, 0)
    /\ UNCHANGED <<call, particles, attractors, trace, serial, playing, env>>

\* setTimeout callback, total > 0 (lines 318, 336-357): lock, update the
\* badge, spawn the blend, show the sensation tags
ResultSpawn(i) ==
    /\ i \in 1..Len(timers) /\ Due(i)
    /\ timers[i].result.total # 0
    /\ LET blend == timers[i].result.blend
           totalSpawn == IF Len(blend) > 1 THEN BLEND_SPAWN ELSE SINGLE_SPAWN
       IN  /\ \E factor \in LifeFactors :
                 particles' = spawnBlend(particles, blend, totalSpawn, factor, serial.particle)
           /\ serial' = [serial EXCEPT !.particle = @ + BatchSize(blend, totalSpawn)]
           /\ last' = Summary("spawnBlend", Count(particles),
                              BlendEvict(particles, totalSpawn),
                              BatchSize(blend, totalSpawn))
           /\ dom' = [dom EXCEPT !.submitDisabled = TRUE, !.textDisabled = TRUE,
                                 !.tags = TRUE, !.glow2 = Len(blend) > 1]
    /\ timers' = RemoveAt(timers, i)
    /\ uiLocked' = TRUE
    /\ playing' = TRUE
    /\ UNCHANGED <<call, attractors, trace, env>>

\* canvas 'click' and 'contextmenu' listeners
Place(type) ==
    /\ UserMay
    /\ attractors' = placeAttractor(attractors, type, serial.point)
    /\ serial' = [serial EXCEPT !.point = @ + 1]
    /\ last' = Summary("placeAttractor", Len(attractors),
                       Len(attractors) + 1 - Len(attractors'), 1)
    /\ env' = [env EXCEPT !.events = @ - 1]
    /\ UNCHANGED <<call, particles, uiLocked, dom, timers, trace, playing>>

Click == Place("attract")

ContextMenu == Place("repel")

\* sensation tag 'click' listener: the tags exist once a result was shown
TagClick ==
    /\ UserMay
    /\ dom.tags
    /\ \E label \in SensationLabels :
          particles' = spawnSensation(particles, label, serial.particle)
    /\ serial' = [serial EXCEPT !.particle = @ + SENSATION_COUNT]
    /\ last' = Summary("spawnSensation", Count(particles), 0, SENSATION_COUNT)
    /\ env' = [env EXCEPT !.events = @ - 1]
    /\ UNCHANGED <<call, attractors, uiLocked, dom, timers, trace, playing>>

\* Faulty variant of the auto-unlock: it never happens.
ShouldUnlock_Never(locked, runs) == FALSE

\* if (uiLocked && particles.length === 0)
ShouldUnlock(locked, runs) == locked /\ Len(runs) = 0

\* requestAnimationFrame callback: animate(), then the auto-unlock
\* (lines 465-473) and the next frame is requested.  Pending results fire
\* within the first frames of the session.
Animate ==
    /\ env.horizon # 0
    /\ env.window > 0 \/ timers = <<>>
    /\ \E c \in {animate([particles |-> particles, attractors |-> attractors,
                            mode |-> "source-over", glow2 |-> dom.glow2, trace |-> <<>>])} :
       LET unlock == ShouldUnlock(uiLocked, c.particles)
       IN  /\ particles' = c.particles
           /\ attractors' = c.attractors
           /\ trace' = c.trace
           /\ uiLocked' = IF unlock THEN FALSE ELSE uiLocked
           /\ dom' = IF unlock
                     THEN [dom EXCEPT !.submitDisabled = FALSE, !.textDisabled = FALSE]
                     ELSE dom
           /\ playing' = IF Len(c.particles) = 0 THEN FALSE ELSE playing
           /\ last' = Summary("animate", Count(particles),
                              Count(particles) - Count(c.particles), 0)
    /\ env' = [env EXCEPT !.window = Max(0, @ - 1),
                          !.horizon = IF @ > 0 THEN @ - 1 ELSE @]
    /\ UNCHANGED <<call, timers, serial>>

Next ==
    \/ \E text \in Texts : Submit(text)
    \/ \E i \in 1..Len(timers) : ResultUnclear(i)
    \/ \E i \in 1..Len(timers) : ResultSpawn(i)
    \/ Click
    \/ ContextMenu
    \/ TagClick
    \/ Animate

Spec == Init /\ [][Next]_vars

NextLife ==
    \/ \E text \in Texts : Submit(text)
    \/ \E i \in 1..Len(timers) : ResultUnclear(i)
    \/ \E i \in 1..Len(timers) : ResultSpawn(i)
    \/ TagClick
    \/ Animate

LifeSpec == LifeInit /\ [][NextLife]_vars

\* requestAnimationFrame runs the frame again and again, and a timeout
\* that was set fires.
TimerFires == \E i \in 1..Len(timers) : ResultUnclear(i) \/ ResultSpawn(i)

FairLifeSpec == LifeSpec /\ WF_vars(Animate) /\ WF_vars(TimerFires)

NextField ==
    \/ Click
    \/ ContextMenu
    \/ Animate

FieldSpec == FieldInit /\ [][NextField]_vars

NextCap ==
    \/ \E text \in Texts : Submit(text)
    \/ \E i \in 1..Len(timers) : ResultUnclear(i)
    \/ \E i \in 1..Len(timers) : ResultSpawn(i)
    \/ Animate

CapSpec == CapInit /\ [][NextCap]_vars

\* Submissions of a three-emotion text or of digits, and sensation bursts,
\* all within the first frame after the boot.
BurstEvents == 5
BurstFrames == 1

BurstTexts == { <<"12345">>, <<"bold", " ", "joy", " ", "sad">> }

BurstInit ==
    Boot([events |-> BurstEvents,
          window |-> BurstFrames, horizon |-> BurstFrames])

NextBurst ==
    \/ \E text \in BurstTexts : Submit(text)
    \/ \E i \in 1..Len(timers) : ResultUnclear(i)
    \/ \E i \in 1..Len(timers) : ResultSpawn(i)
    \/ TagClick
    \/ Animate

BurstSpec == BurstInit /\ [][NextBurst]_vars

-----------------------------------------------------------------------------
(* detectEmotion on its own: one call on one text.                         *)

MaxPrefix == 2          \* DetectSpec: words put before a keyword
MaxRepeat == 4          \* DetectSpec: times a keyword is repeated in a sentence

\* How a word of the tables is typed, in chunks.
Spell(word) ==
    CASE word = "can't" -> <<"can", "'", "t">>
      [] word = "couldn't" -> <<"couldn", "'", "t">>
      [] word = "won't" -> <<"won", "'", "t">>
      [] word = "don't" -> <<"don", "'", "t">>
      [] word = "didn't" -> <<"didn", "'", "t">>
      [] word = "isn't" -> <<"isn", "'", "t">>
      [] word = "wasn't" -> <<"wasn", "'", "t">>
      [] word = "even though" -> <<"even", " ", "though">>
      [] word = "on edge" -> <<"on", " ", "edge">>
      [] word = "burned out" -> <<"burned", " ", "out">>
      [] word = "worn out" -> <<"worn", " ", "out">>
      [] OTHER -> <<word>>

\* The words typed one after another, a blank between two.
RECURSIVE Join(_)
Join(words) ==
    IF words = <<>> THEN <<>>
    ELSE IF Len(words) = 1 THEN Spell(words[1])
    ELSE Spell(words[1]) \o <<" ">> \o Join(Tail(words))

Prefixes == {"not", "never", "don't", "very", "so"}
Keywords == {"happy", "joy", "furious", "hell", "edgy", "on edge", "serene", "still",
             "sad", "bold"}

\* A keyword, after up to MaxPrefix negation words and intensifiers.
OneSentence ==
    {Join(pre \o <<k>>) : pre \in UNION {[1..n -> Prefixes] : n \in 0..MaxPrefix},
                          k \in Keywords}

AngerSentences ==
    {Join([i \in 1..n |-> w]) : w \in {"furious", "hell"}, n \in 1..MaxRepeat}

CalmSentences ==
    {Join([i \in 1..n |-> w]) : w \in {"serene", "still"}, n \in 1..MaxRepeat}

\* Two sentences, the first closed by a full stop and a blank.
Sentences(first, second) == first \o <<".", " ">> \o second

TwoSentences ==
    {Sentences(a, c) : a \in AngerSentences, c \in CalmSentences}
    \cup {Sentences(c, a) : a \in AngerSentences, c \in CalmSentences}

OtherTexts ==
    { <<>>, <<" ">>, <<" ", "\n", "\t">>,
      <<"12345">>, <<".", ".", ".">>, <<"hello", ",", " ", "world", "!">>,
      <<"constructor">>, <<"my", " ", "Constructor">>, <<"__proto__">>,
      <<"NOT", " ", "Happy">>,
      <<"bold", " ", "joy", " ", "sad">>,
      <<"not", " ", "happy", ".", " ", "furious", " ", "serene">>,
      <<"hot", " ", "happy", ".", " ", "but", " ", "cold", " ", "hot", " ", "sad", "!">>,
      <<"serene", "!", "\n", "\n", "yet", " ", "so", " ", "furious", "?", " ">> }

DetectTexts == OneSentence \cup TwoSentences \cup OtherTexts

\* No session: nothing but the boot has happened.
DetectInit == Boot([events |-> 0, window |-> 0, horizon |-> 0])

Classify(text) ==
    /\ call.fn = "none"
    /\ call' = [fn |-> "detectEmotion", text |-> text, result |-> detectEmotion(text)]
    /\ UNCHANGED <<particles, attractors, uiLocked, dom, timers, trace, last, serial,
                   playing, env>>

NextDetect == \E text \in DetectTexts : Classify(text)

DetectSpec == DetectInit /\ [][NextDetect]_vars

-----------------------------------------------------------------------------
(* One Particle on its own: constructed, then pushed and updated in any    *)
(* order.  Forces are whole numbers; only the fields below are kept.       *)

MaxAccel == 2           \* ForceSpec: largest pending acceleration, either sign
MaxAge == 3             \* ForceSpec: updates of the one particle

\* config.lifespan of the particle constructed, in hundredths of a frame
ForceLifespans == {150, 200}

Forces == {0 - 1, 0, 1}

\* new Particle(x, y, config): this.ax = 0; this.ay = 0; age 0, alive
Particle(config) ==
    [ax |-> 0, ay |-> 0, behaviour |-> config.behaviour, lifespan |-> config.lifespan,
     age |-> 0, alive |-> TRUE]

\* Particle.applyForce(fx, fy)
applyForce(p, fx, fy) == [p EXCEPT !.ax = @ + fx, !.ay = @ + fy]

\* Particle.update: ... this.ax = 0; this.ay = 0; ... age and kill
update(p) == ParticleUpdate([p EXCEPT !.ax = 0, !.ay = 0])

ForceInit == Boot([events |-> 0, window |-> 0, horizon |-> 0])

Construct(lifespan) ==
    /\ call.fn = "none"
    /\ call' = [fn |-> "Particle", op |-> "new",
                p |-> Particle([behaviour |-> IDLE_CONFIG.behaviour, lifespan |-> lifespan])]
    /\ UNCHANGED <<particles, attractors, uiLocked, dom, timers, trace, last, serial,
                   playing, env>>

ApplyForce(fx, fy) ==
    /\ call.fn = "Particle"
    /\ call.p.ax + fx \in (0 - MaxAccel)..MaxAccel
    /\ call.p.ay + fy \in (0 - MaxAccel)..MaxAccel
    /\ call' = [call EXCEPT !.op = "applyForce", !.p = applyForce(call.p, fx, fy)]
    /\ UNCHANGED <<particles, attractors, uiLocked, dom, timers, trace, last, serial,
                   playing, env>>

Update ==
    /\ call.fn = "Particle"
    /\ call.p.age < MaxAge
    /\ call' = [call EXCEPT !.op = "update", !.p = update(call.p)]
    /\ UNCHANGED <<particles, attractors, uiLocked, dom, timers, trace, last, serial,
                   playing, env>>

NextForce ==
    \/ \E lifespan \in ForceLifespans : Construct(lifespan)
    \/ \E fx \in Forces : \E fy \in Forces : ApplyForce(fx, fy)
    \/ Update

ForceSpec == ForceInit /\ [][NextForce]_vars

-----------------------------------------------------------------------------
(* The two force passes of a frame on their own: applyRepulsion() on an    *)
(* arrangement of particles, then applyAttractors() on field points.       *)
(* Coordinates are whole pixels, drawn from places whose distances, where  *)
(* a force acts, are whole numbers.  An acceleration is kept exactly, in   *)
(* units of 1 / (100 * ATTRACTOR_R * DistLcm).                             *)

MaxFree == 2            \* PassSpec: particles placed freely
MaxPoints == 1          \* PassSpec: field points
FillerCount == 78       \* PassSpec: anger particles ahead of three more

\* Every distance at which a force acts divides DistLcm.
DistLcm == 15600

\* Where a particle can be: a cross around (60, 50).
Places == { <<60, 50>>, <<60, 10>>, <<60, 90>>, <<10, 50>>, <<110, 50>> }

\* Where the filler particles are, all at one spot far from everything.
FarPlace == <<500, 500>>

\* Where a field point can be placed: above the canvas, on a particle's
\* place, far from every particle.
PointPlaces == { <<60, 0 - 70>>, <<60, 50>>, <<1000, 1000>> }

PassParticle(behaviour, place) ==
    [x |-> place[1], y |-> place[2], vx |-> 0, vy |-> 0, ax |-> 0, ay |-> 0,
     behaviour |-> behaviour, age |-> 0, alive |-> TRUE]

\* The attractors entry pushed by placeAttractor(x, y, type)
PassPoint(type, place) ==
    [x |-> place[1], y |-> place[2], type |-> type, radius |-> ATTRACTOR_R,
     strength |-> ATTRACTOR_STR, age |-> 0]

FreeParticles ==
    UNION {[1..n -> {PassParticle(b, pl) : b \in {"anger", "calm"}, pl \in Places}] :
              n \in 1..MaxFree}

\* Arrangements: a few particles; and FillerCount anger particles followed
\* by three anger particles.
Arrangements ==
    FreeParticles
    \cup {[k \in 1..FillerCount |-> PassParticle("anger", FarPlace)]
             \o <<PassParticle("anger", p1), PassParticle("anger", p2),
                  PassParticle("anger", p3)>> :
          p1 \in Places, p2 \in Places, p3 \in Places}

PointSets ==
    UNION {[1..n -> {PassPoint(t, pl) : t \in {"attract", "repel"}, pl \in PointPlaces}] :
              n \in 1..MaxPoints}

\* Math.sqrt(dSq) || 1, where dSq is a square
Distance(dSq) == IF dSq = 0 THEN 1 ELSE CHOOSE r \in 1..ATTRACTOR_R : r * r = dSq

\* particles.filter(p => p.behaviour === 'anger').slice(0, 80), as indices
Sample(ps) ==
    LET anger == SelectSeq([k \in 1..Len(ps) |-> k], LAMBDA k : ps[k].behaviour = "anger")
    IN  SubSeq(anger, 1, Min(REPULSION_SAMPLE, Len(anger)))

\* Variant of the pair step: only the first particle of the pair is pushed.
RepelPair_OneSided(ps, i, j) ==
    LET a == ps[i]
        b == ps[j]
        dx == b.x - a.x
        dy == b.y - a.y
        dSq == dx * dx + dy * dy
    IN  IF dSq < REPULSION_R * REPULSION_R /\ dSq > 0
        THEN LET f == REPULSION_F * ATTRACTOR_R * (DistLcm \div Distance(dSq))
             IN  [ps EXCEPT ![i] = applyForce(a, 0 - dx * f, 0 - dy * f)]
        ELSE ps

\* The body of the inner loop for a = particle i, b = particle j:
\* if (dSq < R * R && dSq > 0.01) { f = F / d; a.applyForce(-dx * f, -dy * f);
\* b.applyForce(dx * f, dy * f) }
RepelPair(ps, i, j) ==
    LET a == ps[i]
        b == ps[j]
        dx == b.x - a.x
        dy == b.y - a.y
        dSq == dx * dx + dy * dy
    IN  IF dSq < REPULSION_R * REPULSION_R /\ dSq > 0
        THEN LET f == REPULSION_F * ATTRACTOR_R * (DistLcm \div Distance(dSq))
             IN  [ps EXCEPT ![i] = applyForce(a, 0 - dx * f, 0 - dy * f),
                            ![j] = applyForce(b, dx * f, dy * f)]
        ELSE ps

\* for (let j = i + 1; j < sample.length; j++), for one i: the steps for
\* j = lo .. hi in order (the lower half of the range, then the upper half)
RECURSIVE RepelInner(_, _, _, _, _)
RepelInner(ps, sample, i, lo, hi) ==
    IF lo > hi THEN ps
    ELSE IF lo = hi THEN RepelPair(ps, sample[i], sample[lo])
    ELSE Only({RepelInner(next, sample, i, (lo + hi) \div 2 + 1, hi) :
                  next \in {RepelInner(ps, sample, i, lo, (lo + hi) \div 2)}})

\* for (let i = 0; i < sample.length; i++): the steps for i = lo .. hi in order
RECURSIVE RepelLoop(_, _, _, _)
RepelLoop(ps, sample, lo, hi) ==
    IF lo > hi THEN ps
    ELSE IF lo = hi THEN RepelInner(ps, sample, lo, lo + 1, Len(sample))
    ELSE Only({RepelLoop(next, sample, (lo + hi) \div 2 + 1, hi) :
                  next \in {RepelLoop(ps, sample, lo, (lo + hi) \div 2)}})

\* Variant of the repulsion pass: the sample is every anger particle.
RepulsionPass_NoLimit(ps) ==
    LET anger == SelectSeq([k \in 1..Len(ps) |-> k], LAMBDA k : ps[k].behaviour = "anger")
    IN  RepelLoop(ps, anger, 1, Len(anger))

\* applyRepulsion() on the particle array
RepulsionPass(ps) ==
    LET sample == Sample(ps)
    IN  RepelLoop(ps, sample, 1, Len(sample))

\* Variant of the point's force: it acts at any distance below twice the radius.
PointForce_Wide(pt, p) ==
    LET dx == pt.x - p.x
        dy == pt.y - p.y
        dSq == dx * dx + dy * dy
    IN  IF dSq < 4 * pt.radius * pt.radius
        THEN applyForce(p, dx, dy)
        ELSE p

\* The body of applyAttractors' inner loop: the force of point pt on p
PointForce(pt, p) ==
    LET dx == pt.x - p.x
        dy == pt.y - p.y
        dSq == dx * dx + dy * dy
    IN  IF dSq < pt.radius * pt.radius
        THEN LET dist == Distance(dSq)
                 \* strength * falloff / dist
                 force == pt.strength * (pt.radius - dist) * (DistLcm \div dist)
             IN  IF pt.type = "attract"
                 THEN applyForce(p, dx * force, dy * force)
                 ELSE applyForce(p, 0 - dx * force, 0 - dy * force)
        ELSE p

\* attractors.forEach(pt => particles.forEach(p => ...)) from point k on
RECURSIVE PointLoop(_, _, _)
PointLoop(pts, ps, k) ==
    IF k > Len(pts) THEN ps
    ELSE Only({PointLoop(pts, next, k + 1) :
                  next \in {[i \in 1..Len(ps) |-> PointForce(pts[k], ps[i])]}})

\* applyAttractors() on the two arrays: the forces, pt.age++, the filter
AttractorPass(pts, ps) ==
    [ps |-> PointLoop(pts, ps, 1), pts |-> ExpirePoints(AgePoints(pts))]

PassInit == Boot([events |-> 0, window |-> 0, horizon |-> 0])

Repulse(ps) ==
    /\ call.fn = "none"
    /\ call' = [fn |-> "applyRepulsion", before |-> ps, ps |-> RepulsionPass(ps), pts |-> <<>>]
    /\ UNCHANGED <<particles, attractors, uiLocked, dom, timers, trace, last, serial,
                   playing, env>>

Attract(pts) ==
    /\ call.fn = "applyRepulsion"
    /\ \E world \in {AttractorPass(pts, call.ps)} :
          call' = [fn |-> "applyAttractors", before |-> call.ps, ps |-> world.ps,
                   pts |-> pts]
    /\ UNCHANGED <<particles, attractors, uiLocked, dom, timers, trace, last, serial,
                   playing, env>>

NextPass ==
    \/ \E ps \in Arrangements : Repulse(ps)
    \/ \E pts \in PointSets : Attract(pts)

PassSpec == PassInit /\ [][NextPass]_vars

-----------------------------------------------------------------------------
(* spawnBlend on its own: one call on a blend of any tags, after the boot. *)

\* Tags of the registry, tags absent from it, and names every object has.
ResolveTags == DOMAIN EMOTION_CONFIG \cup {"idle", "bliss", ""} \cup OBJECT_PROTOTYPE

\* Blends of one entry and of two equal entries.
ResolveBlends ==
    {<<[emotion |-> t, num |-> 1, den |-> 1]>> : t \in ResolveTags}
    \cup {<<[emotion |-> t, num |-> 1, den |-> 2], [emotion |-> u, num |-> 1, den |-> 2]>> :
              t \in ResolveTags, u \in ResolveTags}

ResolveInit == Boot([events |-> 0, window |-> 0, horizon |-> 0])

SpawnBlend(blend, totalCount) ==
    /\ call.fn = "none"
    /\ \E factor \in LifeFactors :
          /\ particles' = spawnBlend(particles, blend, totalCount, factor, serial.particle)
          /\ call' = [fn |-> "spawnBlend", blend |-> blend, factor |-> factor]
    /\ serial' = [serial EXCEPT !.particle = @ + BatchSize(blend, totalCount)]
    /\ last' = Summary("spawnBlend", Count(particles), BlendEvict(particles, totalCount),
                       BatchSize(blend, totalCount))
    /\ UNCHANGED <<attractors, uiLocked, dom, timers, trace, playing, env>>

NextResolve ==
    \E blend \in ResolveBlends :
        SpawnBlend(blend, IF Len(blend) > 1 THEN BLEND_SPAWN ELSE SINGLE_SPAWN)

ResolveSpec == ResolveInit /\ [][NextResolve]_vars

-----------------------------------------------------------------------------
(* Properties *)

\* The positions of the calls of `op` in the most recent frame.
Calls(op) == {i \in 1..Len(trace) : trace[i].op = op}

\* The first element of each run of the array.
Heads(runs) == {runs[k].lo : k \in 1..Len(runs)}

\* The array's elements are in push order.
Ascending(runs) == \A k \in 1..(Len(runs) - 1) : runs[k].lo + runs[k].n <= runs[k + 1].lo

\* This step is a result timer's spawnBlend.
SpawnBlendStep == last'.op = "spawnBlend" /\ serial'.particle # serial.particle

\* This step is a placement.
PlaceStep == last'.op = "placeAttractor" /\ serial'.point # serial.point

\* C1, as stated: whatever submissions' spawnBlend calls and frames have
\* run, the array never holds more than MAX_PARTICLES particles.
C1_PopulationWithinCapacity == Count(particles) <= MAX_PARTICLES

\* C2: a particle of the population is alive with 0 <= age <= lifespan; an
\* update clears the alive flag exactly when it brings age up to lifespan
\* (the age before it was still below), an update that leaves the particle
\* alive leaves age within lifespan, and a particle whose flag was cleared
\* is gone from the array when the frame ends, so the flag is cleared once.
C2_Lifecycle ==
    /\ \A k \in 1..Len(particles) :
          /\ particles[k].alive
          /\ 0 <= particles[k].age
          /\ particles[k].age * 100 <= particles[k].lifespan
    /\ \A i \in Calls("update") :
          /\ trace[i].age >= 1
          /\ trace[i].alive => trace[i].age * 100 <= trace[i].lifespan
          /\ ~trace[i].alive =>
                /\ trace[i].age * 100 >= trace[i].lifespan
                /\ (trace[i].age - 1) * 100 < trace[i].lifespan
                /\ trace[i].who \notin Heads(particles)

\* C2's case: the most recent frame ran an update that cleared an alive flag.
C2_Witness_DiedInUpdate ==
    /\ last.op = "animate"
    /\ \E i \in Calls("update") : ~trace[i].alive /\ trace[i].who \notin Heads(particles)

\* C3, as stated: a result timer's spawnBlend never runs while an earlier
\* result has locked the UI and the population has not yet been empty.
C3_NoSpawnIntoInFlight == [][SpawnBlendStep => ~playing]_vars

\* C4: in every frame the repulsion pass and the field-point pass each run
\* once, and both have run before the first particle's update.
C4_ForcesBeforeUpdate ==
    trace # <<>> =>
        /\ Cardinality(Calls("applyRepulsion")) = 1
        /\ Cardinality(Calls("applyAttractors")) = 1
        /\ \A u \in Calls("update") :
              \A f \in Calls("applyRepulsion") \cup Calls("applyAttractors") : f < u

\* C4's case: a frame with particles to update, field points in force and
\* anger particles to repel.
C4_Witness_ForcesThenUpdate ==
    /\ Calls("update") # {}
    /\ \E f \in Calls("applyAttractors") : trace[f].n > 0
    /\ \E f \in Calls("applyRepulsion") : trace[f].n > 0

\* C5, as stated: draw is never invoked on a particle whose alive flag is
\* false.
C5_NeverDrawsDead == \A i \in Calls("draw") : trace[i].alive

\* C5, amended: draw is invoked on a dead particle only directly after the
\* update that cleared its flag, it then paints with alpha 0, the cull
\* comes after every update and draw of the frame, and the particle is not
\* in the array when the frame ends (so it is not drawn in a later frame).
C5_DeadDrawnOnceTransparent ==
    /\ \A i \in Calls("draw") :
          ~trace[i].alive =>
              /\ trace[i].alpha = 0
              /\ i > 1
              /\ trace[i - 1].op = "update"
              /\ trace[i - 1].who = trace[i].who
              /\ ~trace[i - 1].alive
              /\ (trace[i - 1].age - 1) * 100 < trace[i - 1].lifespan
              /\ trace[i].who \notin Heads(particles)
    /\ \A i \in Calls("update") \cup Calls("draw") : \A f \in Calls("filter") : i < f
    /\ trace # <<>> => Cardinality(Calls("filter")) = 1
    /\ \A k \in 1..Len(particles) : particles[k].alive

\* C5's case: the most recent frame drew a particle it had just killed.
C5_Witness_DeadDrawn ==
    \E i \in Calls("draw") : ~trace[i].alive /\ trace[i].alpha = 0

\* C6, as stated: a point leaves the active set only in the step that
\* brings its age to ATTRACTOR_LIFE, and never stays beyond it.
C6_RemovedExactlyAtLifetime ==
    [][/\ \A k \in 1..Len(attractors') : attractors'[k].age < ATTRACTOR_LIFE
       /\ \A k \in 1..Len(attractors) :
             attractors[k].id \notin PointIds(attractors') =>
                 attractors[k].age + 1 = ATTRACTOR_LIFE]_vars

\* C6, amended: a point leaves the active set either in the frame that
\* brings its age to ATTRACTOR_LIFE, or earlier when it is the earliest
\* placed point and a placement finds the set at capacity; a frame keeps
\* every younger point, one frame older; no point stays beyond its lifetime.
C6_ExpiryOrEviction ==
    [][/\ \A k \in 1..Len(attractors') : attractors'[k].age < ATTRACTOR_LIFE
       /\ \A k \in 1..Len(attractors) :
             attractors[k].id \notin PointIds(attractors') =>
                 \/ last'.op = "animate" /\ attractors[k].age + 1 = ATTRACTOR_LIFE
                 \/ PlaceStep /\ k = 1 /\ Len(attractors) = MAX_ATTRACTORS
       /\ last'.op = "animate" =>
             \A k \in 1..Len(attractors) :
                 attractors[k].age + 1 < ATTRACTOR_LIFE =>
                     \E j \in 1..Len(attractors') :
                         attractors'[j] = [attractors[k] EXCEPT !.age = @ + 1]]_vars

\* C6's case: after a placement at capacity evicted a point, a frame
\* removed a point that reached its lifetime.
C6_Witness_Expired ==
    /\ last.op = "animate"
    /\ serial.point > MAX_ATTRACTORS + 1
    /\ \E f \in Calls("applyAttractors") : trace[f].n > Len(attractors)

\* C7: the active set never holds more than MAX_ATTRACTORS points; a
\* placement always ends with the new point appended, with age 0; when it
\* finds the set at capacity exactly the earliest placed point is gone and
\* the others keep their order, and otherwise no point is gone.
C7_PlacementFifo ==
    [][/\ Len(attractors') <= MAX_ATTRACTORS
       /\ PlaceStep =>
             LET n == Len(attractors)
                 m == Len(attractors')
             IN  /\ m >= 1
                 /\ attractors'[m].id = serial.point
                 /\ attractors'[m].age = 0
                 /\ IF n = MAX_ATTRACTORS
                    THEN /\ m = MAX_ATTRACTORS
                         /\ PointIds(attractors) \ PointIds(attractors') = {attractors[1].id}
                         /\ \A q \in PointIds(attractors) : attractors[1].id <= q
                         /\ SubSeq(attractors', 1, m - 1) = SubSeq(attractors, 2, n)
                    ELSE /\ m = n + 1
                         /\ SubSeq(attractors', 1, n) = attractors]_vars

\* C7's case: a placement found the set at capacity and evicted a point.
C7_Witness_EvictedAtCapacity ==
    /\ last.op = "placeAttractor"
    /\ last.n0 = MAX_ATTRACTORS
    /\ last.evicted = 1
    /\ Len(attractors) = MAX_ATTRACTORS

\* The UI as the auto-unlock leaves it.
Unlocked == ~uiLocked /\ ~dom.submitDisabled /\ ~dom.textDisabled

\* C8: once the UI is locked, with frames running, the population becomes
\* empty with the UI unlocked; and the frame that empties the population
\* leaves uiLocked false and the button and the text area enabled.
C8_LockedEventuallyIdle ==
    /\ uiLocked ~> (particles = <<>> /\ Unlocked)
    /\ [][particles # <<>> /\ particles' = <<>> => Unlocked']_vars

\* C8's case: a frame found the UI locked, removed the last particles and
\* unlocked.
C8_Witness_UnlockedByFrame ==
    /\ last.op = "animate"
    /\ last.locked
    /\ last.n0 > 0
    /\ particles = <<>>
    /\ Unlocked

\* C9, as stated: a spawnBlend that finds n particles and pushes a batch
\* removes exactly n + batch - MAX_PARTICLES particles when that is
\* positive and none otherwise; the removed ones are the front of the
\* array, and the array stays in push order.
C9_EvictsRequiredOldest ==
    [][SpawnBlendStep =>
          LET n == Count(particles)
              batch == serial'.particle - serial.particle
              gone == AllIds(particles) \ AllIds(particles')
          IN  /\ Cardinality(gone) = Max(0, n + batch - MAX_PARTICLES)
              /\ gone = {x \in AllIds(particles) : x < particles'[1].lo}
              /\ Ascending(particles')]_vars

\* C10, as stated: the field-point pass, then the repulsion pass, then the
\* updates, then the removal of the dead.
C10_FieldThenRepulsion ==
    trace # <<>> =>
        /\ \A a \in Calls("applyAttractors") : \A r \in Calls("applyRepulsion") : a < r
        /\ \A r \in Calls("applyRepulsion") : \A u \in Calls("update") : r < u
        /\ \A u \in Calls("update") : \A f \in Calls("filter") : u < f

\* C10, amended: each frame runs the repulsion pass, then the field-point
\* pass, then every particle's update, then the filter, each pass once; the
\* filter removes exactly the particles whose flag is false.
C10_RepulsionThenField ==
    trace # <<>> =>
        /\ Cardinality(Calls("applyRepulsion")) = 1
        /\ Cardinality(Calls("applyAttractors")) = 1
        /\ Cardinality(Calls("filter")) = 1
        /\ \A r \in Calls("applyRepulsion") : \A a \in Calls("applyAttractors") : r < a
        /\ \A a \in Calls("applyAttractors") : \A u \in Calls("update") : a < u
        /\ \A u \in Calls("update") : \A f \in Calls("filter") : u < f
        /\ \A k \in 1..Len(particles) : particles[k].alive
        /\ last.op = "animate" =>
              \A u \in Calls("update") :
                  trace[u].alive <=> trace[u].who \in Heads(particles)

\* C10's case: a frame that repelled anger particles, updated particles and
\* removed dead ones.
C10_Witness_FullFrame ==
    /\ \E r \in Calls("applyRepulsion") : trace[r].n > 0
    /\ Calls("update") # {}
    /\ \E f \in Calls("filter") : trace[f].n > 0

-----------------------------------------------------------------------------
(* Properties of detectEmotion (DetectSpec) *)

Classified == call.fn = "detectEmotion"

\* The text is empty or made of white space only.
Blank(text) == \A i \in 1..Len(text) : IsSpace(text[i])

\* The blend is in descending order of weight and its first entry is the
\* result's dominant emotion.
DominantLeads(result) ==
    /\ Len(result.blend) >= 1
    /\ result.blend[1].emotion = result.emotion
    /\ \A k \in 1..Len(result.blend) :
          /\ result.blend[k].den = result.blend[1].den
          /\ k > 1 => result.blend[k].num <= result.blend[k - 1].num

\* C11 as stated: every result's blend has at least one entry, is in
\* descending order of weight, and its highest entry is the dominant emotion.
C11_BlendNeverEmpty == Classified => DominantLeads(call.result)

\* C11: a result whose raw score total is not zero, and the result for a
\* blank text, has a blend of at least one entry in descending order of
\* weight whose first entry is the dominant emotion; a text that is not
\* blank and scores nothing has an empty blend, dominant emotion joy and
\* confidence 0.
C11_BlendEmptyOnlyWithoutSignal ==
    Classified =>
        IF call.result.total = 0 /\ ~Blank(call.text)
        THEN /\ call.result.blend = <<>>
             /\ call.result.emotion = "joy"
             /\ call.result.confidence.num = 0
        ELSE DominantLeads(call.result)

\* A text with a keyword in each of two sentences, the later-listed emotion
\* stronger, was classified; and a text without any keyword was.
C11_Witness_SortedBlend ==
    /\ Classified
    /\ Len(call.result.blend) = 2
    /\ call.result.blend[1].num > call.result.blend[2].num
    /\ call.result.blend[1].emotion = "anger"

C11_Witness_EmptyBlend ==
    /\ Classified
    /\ ~Blank(call.text)
    /\ call.result.total = 0
    /\ call.result.blend = <<>>

\* The emotions whose share of the raw distribution reaches the threshold.
Passing(result) ==
    {e \in EmotionSet : result.scores[e] * 100 >= 16 * result.total}

BlendTags(result) == {result.blend[k].emotion : k \in 1..Len(result.blend)}

\* C12 as stated: whenever the raw score total is positive some emotion's
\* share is at least 0.16, so the blend is never the fallback singleton.
C12_ThresholdKeepsOne ==
    (Classified /\ call.result.total > 0) => Passing(call.result) # {}

\* C12: whenever the raw score total is positive the largest share is at
\* least 1/15, which is below the threshold: the blend holds exactly the
\* emotions whose share reaches 0.16 and, when none does, it is the
\* singleton of the dominant emotion with weight 1.
C12_FallbackWhenNonePasses ==
    (Classified /\ call.result.total > 0) =>
        /\ \E e \in EmotionSet : call.result.scores[e] * 15 >= call.result.total
        /\ \A e \in EmotionSet : call.result.scores[e] <= call.result.scores[call.result.emotion]
        /\ IF Passing(call.result) = {}
           THEN call.result.blend = <<[emotion |-> call.result.emotion, num |-> 1, den |-> 1]>>
           ELSE /\ BlendTags(call.result) = Passing(call.result)
                /\ Len(call.result.blend) = Cardinality(Passing(call.result))

\* A negated keyword was classified: its weight is spread over the other
\* fourteen emotions and none reaches the threshold.
C12_Witness_FallbackTaken ==
    /\ Classified
    /\ call.result.total > 0
    /\ Passing(call.result) = {}
    /\ call.result.blend = <<[emotion |-> call.result.emotion, num |-> 1, den |-> 1]>>

\* C13: whenever the raw score total is positive every weight of the blend
\* is non-negative and the weights sum to 1.
C13_BlendWeightsSumToOne ==
    (Classified /\ call.result.total > 0) =>
        /\ \A k \in 1..Len(call.result.blend) :
              /\ call.result.blend[k].num >= 0
              /\ call.result.blend[k].den > 0
              /\ call.result.blend[k].den = call.result.blend[1].den
        /\ SumRange([k \in 1..Len(call.result.blend) |-> call.result.blend[k].num],
                    1, Len(call.result.blend)) = call.result.blend[1].den

\* A text was classified whose blend keeps two emotions and leaves a third,
\* scored one, out: the kept weights had to be renormalised.
C13_Witness_Renormalised ==
    /\ Classified
    /\ Len(call.result.blend) = 2
    /\ call.result.blend[1].den < call.result.total
    /\ call.result.blend[1].num + call.result.blend[2].num = call.result.blend[1].den

\* No token of the text is a key of an emotion keyword table.
NoKeyword(text) ==
    \A i \in 1..Len(tokenise(text)) :
        \A e \in EmotionSet : tokenise(text)[i] \notin DOMAIN LEXICONS[e]

\* C14 as stated: a text none of whose tokens is a key of an emotion
\* keyword table adds nothing to any emotion score and has raw score total 0.
C14_UnknownTokensIgnored ==
    (Classified /\ NoKeyword(call.text)) =>
        /\ call.result.total = 0
        /\ \A e \in DOMAIN call.result.scores : call.result.scores[e] = 0

\* The share of emotion e in the raw distribution of `a` is strictly lower
\* than in that of `b` (both totals positive).
\* Every score is a multiple of 200 on the scale of AggregatedScores; the
\* cross products are taken on scores divided by 100.
LowerShare(a, b, e) ==
    (a.scores[e] \div 100) * (b.total \div 100) < (b.scores[e] \div 100) * (a.total \div 100)

\* C15 as stated: for a sentence made of a negation word and then a joy
\* keyword, the raw share of joy is strictly lower than for the keyword
\* alone, and the raw share of some other emotion is strictly higher.
C15_NegationLowersJoy ==
    \A word \in NEGATION_WORDS : \A k \in DOMAIN LEXICONS["joy"] :
        (Classified /\ call.text = Join(<<word, k>>)) =>
            LET plain == detectEmotion(Join(<<k>>)) IN
            /\ call.result.total > 0
            /\ LowerShare(call.result, plain, "joy")
            /\ \E e \in EmotionSet \ {"joy"} : LowerShare(plain, call.result, e)

RECURSIVE Gcd(_, _)
Gcd(a, b) == IF b = 0 THEN a ELSE Gcd(b, a % b)

\* The weight of emotion e in the blend, a fraction in lowest terms; 0 when
\* the blend has no entry for e.
Weight(result, e) ==
    LET at == {k \in 1..Len(result.blend) : result.blend[k].emotion = e} IN
    IF at = {} THEN [num |-> 0, den |-> 1]
    ELSE LET w == result.blend[CHOOSE k \in at : TRUE] IN
         [num |-> w.num \div Gcd(w.num, w.den), den |-> w.den \div Gcd(w.num, w.den)]

Less(f, g) == f.num * g.den < g.num * f.den

C17_IntensifierRaisesScore ==
    \A word \in INTENSIFIERS : \A e \in EmotionSet : \A k \in DOMAIN LEXICONS[e] :
        (Classified /\ call.text = Join(<<word, k>>)) =>
            LET plain == detectEmotion(Join(<<k>>)) IN
            /\ call.result.scores[e] > plain.scores[e]
            /\ call.result.scores[e] * 10 = plain.scores[e] * 16

\* C18: every empty or whitespace-only text gets the same result:
\* confidence 0.5, a blend of one entry of weight 1 whose tag is the
\* dominant emotion, bodily 1 and raw score total 0.
C18_BlankGivesIdleResult ==
    (Classified /\ Blank(call.text)) =>
        /\ call.result = detectEmotion(<<>>)
        /\ call.result.confidence = [num |-> 1, den |-> 2]
        /\ Len(call.result.blend) = 1
        /\ call.result.blend[1] = [emotion |-> call.result.emotion, num |-> 1, den |-> 1]
        /\ call.result.bodily = [num |-> 1000, den |-> 1]
        /\ call.result.total = 0

\* A text of several white-space characters was classified.
C18_Witness_WhitespaceOnly ==
    /\ Classified
    /\ Len(call.text) > 1
    /\ Blank(call.text)
    /\ call.result.total = 0

-----------------------------------------------------------------------------
(* Properties of one Particle (ForceSpec) *)

\* C19 as stated: applyForce on a particle whose alive flag is false leaves
\* the pending acceleration (ax, ay) as it was.
C19_DeadIgnoresForce ==
    [][(call.fn = "Particle" /\ ~call.p.alive /\ call'.op = "applyForce") =>
           (call'.p.ax = call.p.ax /\ call'.p.ay = call.p.ay)]_vars

-----------------------------------------------------------------------------
(* Properties of spawnBlend (ResolveSpec) *)

\* The particles pushed for entry k of the blend of the call.
Pushed(k) == particles[Len(particles) - Len(call.blend) + k]

\* C20 as stated: for every entry of the blend passed to spawnBlend, the
\* particles pushed have the profile of the entry's tag when the registry
\* has the tag, and the idle profile when it has not.
C20_AbsentTagResolvesToIdle ==
    call.fn = "spawnBlend" =>
        \A k \in 1..Len(call.blend) :
            LET tag == call.blend[k].emotion
                profile == IF tag \in DOMAIN EMOTION_CONFIG THEN EMOTION_CONFIG[tag]
                           ELSE IDLE_CONFIG
            IN  /\ Pushed(k).behaviour = profile.behaviour
                /\ Pushed(k).lifespan = profile.lifespan * call.factor

-----------------------------------------------------------------------------
(* Properties of the session, continued *)

\* C21: in every frame each particle is drawn under 'lighter'; the
\* background fill, the background glows and the field-point indicators are
\* drawn under 'source-over'; and the mode is 'source-over' again when the
\* frame ends (the cull is the frame's last statement).
C21_CompositingModes ==
    \A i \in 1..Len(trace) :
        /\ trace[i].op = "draw" => trace[i].mode = "lighter"
        /\ trace[i].op \in {"fillRect", "fillGlow", "fillGlow2", "drawAttractor"} =>
              trace[i].mode = "source-over"
        /\ trace[i].op = "filter" => trace[i].mode = "source-over"

\* A frame drew both background glows, particles and a field point.
C21_Witness_AllLayers ==
    /\ Calls("fillRect") # {}
    /\ Calls("fillGlow2") # {}
    /\ Calls("draw") # {}
    /\ Calls("drawAttractor") # {}
    /\ Calls("filter") # {}

\* C22 as stated: whatever boot spawn, spawnBlend calls, sensation bursts
\* and frames have run, the array holds at most MAX_PARTICLES particles.
C22_PopulationWithinCapacityWithBursts ==
    last.op \in {"boot", "submit", "unclear", "spawnBlend", "spawnSensation", "animate"} =>
        Count(particles) <= MAX_PARTICLES

\* C23 as stated: once a result has locked the UI, uiLocked returns to
\* false only in a state where the particle array is empty, and the inputs
\* are enabled again with it.
C23_UnlockOnlyWhenEmpty ==
    [][(uiLocked /\ ~uiLocked') =>
           (Len(particles') = 0 /\ ~dom'.submitDisabled /\ ~dom'.textDisabled)]_vars

\* C24 as stated: results take effect in submission order, that is, the
\* result callback that runs is the one of the earliest submission still
\* pending.
C24_ResultsInSubmissionOrder ==
    [][Len(timers') < Len(timers) => timers' = Tail(timers)]_vars

C30_AccelerationZeroBetweenFrames ==
    \A k \in 1..Len(particles) : ~particles[k].forced

\* A frame applied repulsion within a sample of anger particles and the force
\* of a field point, updated the particles, and left some of them alive.
C30_Witness_ForcesThenUpdate ==
    /\ last.op = "animate"
    /\ \E i \in Calls("applyRepulsion") : trace[i].n >= 2
    /\ \E i \in Calls("applyAttractors") : trace[i].n >= 1
    /\ Calls("update") # {}
    /\ \E k \in 1..Len(particles) : particles[k].behaviour = "anger"

-----------------------------------------------------------------------------
(* Properties of detectEmotion, continued                                  *)

\* The positions of the tokens that are a key of some emotion keyword table.
KeywordPositions(tokens) ==
    {i \in 1..Len(tokens) : \E e \in EmotionSet : tokens[i] \in DOMAIN LEXICONS[e]}

\* The text is one sentence whose only keyword token has a negation word one
\* or two tokens before it.
OnlyKeywordNegated(text) ==
    LET tokens == tokenise(text) IN
    /\ Len(splitToSentences(text)) = 1
    /\ Cardinality(KeywordPositions(tokens)) = 1
    /\ \A i \in KeywordPositions(tokens) :
          \/ i >= 2 /\ tokens[i - 1] \in NEGATION_WORDS
          \/ i >= 3 /\ tokens[i - 2] \in NEGATION_WORDS

\* C27 as stated: in a sentence whose only keyword token is negated, every
\* emotion whose table contains that token ends with score 0.
C27_NegatedKeywordScoresZero ==
    (Classified /\ OnlyKeywordNegated(call.text)) =>
        \A e \in EmotionSet :
            (\E i \in KeywordPositions(tokenise(call.text)) :
                 tokenise(call.text)[i] \in DOMAIN LEXICONS[e])
                => call.result.scores[e] = 0

-----------------------------------------------------------------------------
(* Properties of the force passes                                          *)

\* The particles the pass was given and the particles it left.
Passed(fn) == call.fn = fn

\* Particle k is an anger particle with fewer than REPULSION_SAMPLE anger
\* particles before it in the array.
InAngerPrefix(ps, k) ==
    /\ ps[k].behaviour = "anger"
    /\ Cardinality({j \in 1..(k - 1) : ps[j].behaviour = "anger"}) < REPULSION_SAMPLE

SameAcceleration(k) == call.ps[k].ax = call.before[k].ax /\ call.ps[k].ay = call.before[k].ay

DistSq(x1, y1, x2, y2) == (x2 - x1) * (x2 - x1) + (y2 - y1) * (y2 - y1)

\* C26: applyRepulsion changes the pending acceleration only of particles
\* among the first 80 anger particles in array order; every other particle is
\* left as it was, and no particle's position, velocity or age changes.
C26_RepulsionOnlyInAngerPrefix ==
    Passed("applyRepulsion") =>
        /\ Len(call.ps) = Len(call.before)
        /\ \A k \in 1..Len(call.ps) :
              /\ ~InAngerPrefix(call.before, k) => call.ps[k] = call.before[k]
              /\ [call.ps[k] EXCEPT !.ax = 0, !.ay = 0]
                     = [call.before[k] EXCEPT !.ax = 0, !.ay = 0]

\* An anger particle inside the prefix was pushed by a neighbour, and an anger
\* particle beyond the prefix, as near to that neighbour, was not.
C26_Witness_BeyondPrefixUntouched ==
    /\ Passed("applyRepulsion")
    /\ Len(call.ps) > REPULSION_SAMPLE
    /\ LET k == Len(call.ps)
           i == k - 1
           j == k - 2
       IN  /\ InAngerPrefix(call.before, i) /\ InAngerPrefix(call.before, j)
           /\ ~SameAcceleration(i) /\ ~SameAcceleration(j)
           /\ call.before[k].behaviour = "anger" /\ ~InAngerPrefix(call.before, k)
           /\ DistSq(call.before[i].x, call.before[i].y, call.before[k].x, call.before[k].y)
                  \in 1..(REPULSION_R * REPULSION_R - 1)
           /\ call.ps[k] = call.before[k]

\* Particle p is strictly within the radius of point pt.
WithinRadius(pt, p) == DistSq(p.x, p.y, pt.x, pt.y) < pt.radius * pt.radius

\* C28: in applyAttractors a field point changes the pending acceleration
\* only of particles strictly within its radius: a particle at distance >=
\* radius from every point keeps its acceleration, wherever the points are.
C28_PointActsOnlyWithinRadius ==
    Passed("applyAttractors") =>
        \A k \in 1..Len(call.ps) :
            (\A i \in 1..Len(call.pts) : ~WithinRadius(call.pts[i], call.before[k]))
                => SameAcceleration(k)

\* A point placed above the canvas pulled or pushed one particle and left
\* alone another that is exactly one radius away from it.
C28_Witness_AtRadiusUntouched ==
    /\ Passed("applyAttractors")
    /\ \E i \in 1..Len(call.pts) :
          /\ call.pts[i].y < 0
          /\ \E k, m \in 1..Len(call.ps) :
                /\ DistSq(call.before[k].x, call.before[k].y, call.pts[i].x, call.pts[i].y)
                       = call.pts[i].radius * call.pts[i].radius
                /\ SameAcceleration(k)
                /\ WithinRadius(call.pts[i], call.before[m])
                /\ ~SameAcceleration(m)

\* The acceleration the pass added to particles 1..k, along one axis.
RECURSIVE SumAdded(_, _)
SumAdded(k, axis) ==
    IF k = 0 THEN 0
    ELSE SumAdded(k - 1, axis)
            + (IF axis = "x" THEN call.ps[k].ax - call.before[k].ax
                             ELSE call.ps[k].ay - call.before[k].ay)

\* C29: repulsion is pairwise equal and opposite, so the acceleration added
\* by one applyRepulsion pass sums to zero on each axis.
C29_RepulsionSumsToZero ==
    Passed("applyRepulsion") =>
        SumAdded(Len(call.ps), "x") = 0 /\ SumAdded(Len(call.ps), "y") = 0

\* A pass pushed a pair of particles apart: one got a force and the other
\* its negation.
C29_Witness_PairPushedApart ==
    /\ Passed("applyRepulsion")
    /\ \E i, j \in 1..Len(call.ps) :
          /\ i # j
          /\ call.ps[i].ax - call.before[i].ax > 0
          /\ call.ps[j].ax - call.before[j].ax = 0 - (call.ps[i].ax - call.before[i].ax)

=============================================================================
